---- MODULE Spec2Model ----
(***************************************************************************)
(* Mailbox Size Report (mailbox.v8.1.remote.py): the command-line run as a *)
(* state machine (account listing, per-account mailbox fetch, report) and  *)
(* the byte formatter convert_to_human as an operator.                     *)
(*                                                                         *)
(* Python integers are unbounded and TLC's are 32 bits wide, so a byte     *)
(* count handed to convert_to_human is carried as its NDigits base-1024    *)
(* digits, least significant first: <<d1, .., d5>> is                      *)
(* d1 + d2*1024 + d3*1024^2 + d4*1024^3 + d5*1024^4.                       *)
(***************************************************************************)
EXTENDS Integers, Sequences, FiniteSets, TLC

VARIABLES
    args,          \* argparse namespace: t, u, o, hide_empty
    pc,            \* position of the main script
    users,         \* the processed account list
    idx,           \* accounts of `users` the collect loop has finished
    mailbox_data,  \* the record collection (rows of the DataFrame)
    stdout,        \* lines and tables printed so far
    exit_code,     \* -1 while running, then the process exit status
    http_calls,    \* requests issued so far, each with the response it got
    files,         \* files the run has written
    size_in,       \* formatter harness: the byte count handed in
    size_out       \* formatter harness: the string handed back

vars == <<args, pc, users, idx, mailbox_data, stdout, exit_code, http_calls,
          files, size_in, size_out>>

flow_vars == <<args, pc, users, idx, mailbox_data, stdout, exit_code,
               http_calls, files>>

fmt_vars == <<size_in, size_out>>

(***************************************************************************)
(* Byte counts and convert_to_human                                        *)
(***************************************************************************)
Base == 1024

Units == <<"B", "KB", "MB", "GB", "TB">>

\* one digit per unit: counts below 1024**5 = 2**50
NDigits == Len(Units)

\* the digits of a small (32-bit) count
ToDigits(n) ==
    [i \in 1..NDigits |->
        IF i = 1 THEN n % Base
        ELSE IF i = 2 THEN (n \div Base) % Base
        ELSE IF i = 3 THEN (n \div (Base * Base)) % Base
        ELSE IF i = 4 THEN n \div (Base * Base * Base)
        ELSE 0]

\* size_bytes >= 1024**k
GePow(d, k) == \E i \in (k + 1)..NDigits : d[i] # 0

RECURSIVE HighPart(_, _)
\* size_bytes // 1024**k  (the digits above position k)
HighPart(d, k) ==
    IF k >= NDigits THEN 0 ELSE d[k + 1] + Base * HighPart(d, k + 1)

RECURSIVE Times100(_, _, _)
\* 100 * (size_bytes mod 1024**k) as <<carry out of digit k, remainder digits>>
Times100(d, k, i) ==
    IF i = 0 THEN <<0, <<>>>>
    ELSE LET low == Times100(d, k, i - 1)
             t   == d[i] * 100 + low[1]
         IN  <<t \div Base, Append(low[2], t % Base)>>

\* the remainder digits r (k of them) against half of 1024**k: -1, 0 or 1
CmpHalf(r, k) ==
    LET half == Base \div 2
        lowzero == \A i \in 1..(k - 1) : r[i] = 0
    IN  IF r[k] > half \/ (r[k] = half /\ ~lowzero) THEN 1
        ELSE IF r[k] = half /\ lowzero THEN 0
        ELSE -1

\* f"{size_bytes / 1024**k:.2f}" in hundredths: the exact quotient rounded
\* to two decimals, ties to even (the quotient is exact in a double below 2**53)
Hundredths(d, k) ==
    LET m     == Times100(d, k, k)
        floor == HighPart(d, k) * 100 + m[1]
        c     == CmpHalf(m[2], k)
    IN  IF c = 1 \/ (c = 0 /\ floor % 2 = 1) THEN floor + 1 ELSE floor

\* f"{x:.2f} {unit}": integer part, two decimal digits, unit
Fixed2(h, unit) ==
    [whole |-> h \div 100, dec |-> <<(h % 100) \div 10, h % 10>>, unit |-> unit]

\* size_bytes > 1024**k
GtPow(d, k) ==
    GePow(d, k) /\ ~(d[k + 1] = 1 /\ \A i \in 1..NDigits : i # k + 1 => d[i] = 0)

\* convert_to_human with the thresholds compared by > instead of >=
convert_to_human_gt(size_bytes) ==
    IF GtPow(size_bytes, 4) THEN Fixed2(Hundredths(size_bytes, 4), "TB")
    ELSE IF GtPow(size_bytes, 3) THEN Fixed2(Hundredths(size_bytes, 3), "GB")
    ELSE IF GtPow(size_bytes, 2) THEN Fixed2(Hundredths(size_bytes, 2), "MB")
    ELSE IF GtPow(size_bytes, 1) THEN Fixed2(Hundredths(size_bytes, 1), "KB")
    ELSE [whole |-> size_bytes[1] + Base * size_bytes[2], dec |-> <<>>,
          unit |-> "B"]

convert_to_human(size_bytes) ==
    IF GePow(size_bytes, 4) THEN Fixed2(Hundredths(size_bytes, 4), "TB")
    ELSE IF GePow(size_bytes, 3) THEN Fixed2(Hundredths(size_bytes, 3), "GB")
    ELSE IF GePow(size_bytes, 2) THEN Fixed2(Hundredths(size_bytes, 2), "MB")
    ELSE IF GePow(size_bytes, 1) THEN Fixed2(Hundredths(size_bytes, 1), "KB")
    ELSE [whole |-> size_bytes[1], dec |-> <<>>, unit |-> "B"]

(***************************************************************************)
(* The inputs of a run: command line and API responses                     *)
(***************************************************************************)
MaxAccts == 2

MaxBoxes == 2

MaxTop == 2

Accounts == {"acct1", "acct2"}

Domains == {"d1.com", "d2.com"}

\* values of the _diskused field, in tenths: "0.9", "1.5"
DiskUsed == {9, 15}

HttpOk == 200

Statuses == {HttpOk, 403}

SeqsUpTo(S, n) == UNION {[1..k -> S] : k \in 0..n}

NoRepeat(s) == \A i, j \in 1..Len(s) : i # j => s[i] # s[j]

\* argparse: -t (int, None when absent), -u (str, None when absent; the
\* string is carried as its comma-separated fields), -o, --hide-empty
ArgSpace ==
    [t_given : BOOLEAN, t : 0..MaxTop, u : SeqsUpTo(Accounts, MaxAccts),
     o_given : BOOLEAN, hide_empty : BOOLEAN]

Args == {a \in ArgSpace : ~a.t_given => a.t = 0}

\* Python truthiness of args.t and args.u
Truthy_t(a) == a.t_given /\ a.t # 0

Truthy_u(a) == a.u # <<>>

\* one entry of a list_pops_with_disk answer; _diskused may be missing
Mailboxes ==
    [email : 1..MaxBoxes, domain : Domains, diskused : DiskUsed]
    \cup [email : 1..MaxBoxes, domain : Domains]

\* a mailbox list as the API returns it: entry i is mailbox number i
MailboxLists ==
    {l \in SeqsUpTo(Mailboxes, MaxBoxes) : \A i \in 1..Len(l) : l[i].email = i}

\* JSON bodies of a listaccts answer
ListBodies ==
    {[shape |-> s, acct |-> <<>>] : s \in {"empty", "no_data", "no_acct"}}
    \cup {[shape |-> "acct", acct |-> l] :
            l \in {x \in SeqsUpTo(Accounts, MaxAccts) : NoRepeat(x)}}

\* JSON bodies of a list_pops_with_disk answer
BoxBodies ==
    {[shape |-> s, data |-> <<>>] : s \in {"empty", "no_result", "no_data"}}
    \cup {[shape |-> "data", data |-> l] : l \in MailboxLists}

(***************************************************************************)
(* run_whmapi, get_cpanel_users, get_mailboxes                             *)
(***************************************************************************)
NoString == [whole |-> 0, dec |-> <<>>, unit |-> ""]

Call(fn, user, status, body) ==
    [api_function |-> fn, user |-> user, status |-> status, body |-> body]

\* run_whmapi that prints the status of a non-200 answer and carries on
run_whmapi_fail_soft(fn, user, status) ==
    /\ status # HttpOk
    /\ http_calls' = Append(http_calls, Call(fn, user, status, [shape |-> "error"]))
    /\ stdout' = Append(stdout, [kind |-> "error_http", status |-> status])
    /\ exit_code' = exit_code
    /\ pc' = pc

\* run_whmapi on a non-200 answer: print the status, sys.exit(1)
run_whmapi_fail(fn, user, status) ==
    /\ status # HttpOk
    /\ http_calls' = Append(http_calls, Call(fn, user, status, [shape |-> "error"]))
    /\ stdout' = Append(stdout, [kind |-> "error_http", status |-> status])
    /\ exit_code' = 1
    /\ pc' = "exited"

\* `not data or "data" not in data or "acct" not in data["data"]`
NoUsersFound(body) == body.shape \in {"empty", "no_data", "no_acct"}

\* `not data or "result" not in data or "data" not in data["result"]`
NoMailboxData(body) == body.shape \in {"empty", "no_result", "no_data"}

\* what get_mailboxes returns for a 200 answer
get_mailboxes(body) == IF NoMailboxData(body) THEN <<>> ELSE body.data

\* the size rounded to the nearest integer instead of truncated
size_bytes_of_round(mailbox) ==
    IF "diskused" \in DOMAIN mailbox THEN (mailbox.diskused + 5) \div 10 ELSE 0

\* int(float(mailbox.get("_diskused", 0))): truncation toward zero
size_bytes_of(mailbox) ==
    IF "diskused" \in DOMAIN mailbox
    THEN IF mailbox.diskused >= 0 THEN mailbox.diskused \div 10
         ELSE -((-mailbox.diskused) \div 10)
    ELSE 0

\* `if hide_empty and size_bytes == 0: continue`
Skipped(hide_empty, size_bytes) == hide_empty /\ size_bytes = 0

Row(user, mailbox) ==
    [cPanel_User |-> user, Email |-> mailbox.email, Domain |-> mailbox.domain,
     Size_Bytes |-> size_bytes_of(mailbox),
     Size_Human |-> convert_to_human(ToDigits(size_bytes_of(mailbox)))]

RECURSIVE RowsOf(_, _, _)

RECURSIVE RowsOf_reversed(_, _, _)
\* the inner loop inserting each row at the front of the account's rows
RowsOf_reversed(user, mailboxes, hide_empty) ==
    IF mailboxes = <<>> THEN <<>>
    ELSE LET m == Head(mailboxes)
             rest == RowsOf_reversed(user, Tail(mailboxes), hide_empty)
         IN  IF Skipped(hide_empty, size_bytes_of(m)) THEN rest
             ELSE rest \o <<Row(user, m)>>

\* the inner loop of collect_mailboxes over one account's mailboxes
RowsOf(user, mailboxes, hide_empty) ==
    IF mailboxes = <<>> THEN <<>>
    ELSE LET m == Head(mailboxes)
             rest == RowsOf(user, Tail(mailboxes), hide_empty)
         IN  IF Skipped(hide_empty, size_bytes_of(m)) THEN rest
             ELSE <<Row(user, m)>> \o rest

\* the filter applied as an intersection with the listing
ProcessedUsers_listed(a, listed) ==
    IF Truthy_u(a) THEN SelectSeq(listed, LAMBDA x : x \in {a.u[i] : i \in DOMAIN a.u})
    ELSE listed

\* `if args.u: users = args.u.split(",")`
ProcessedUsers(a, listed) == IF Truthy_u(a) THEN a.u ELSE listed

(***************************************************************************)
(* The run                                                                 *)
(***************************************************************************)
Init ==
    /\ args \in Args
    /\ pc = "get_cpanel_users"
    /\ users = <<>>
    /\ idx = 0
    /\ mailbox_data = <<>>
    /\ stdout = <<>>
    /\ exit_code = -1
    /\ http_calls = <<>>
    /\ files = {}
    /\ size_in = ToDigits(0)
    /\ size_out = NoString

\* listaccts answers with a non-200 status
ListAcctsHttpError ==
    /\ pc = "get_cpanel_users"
    /\ \E status \in Statuses : run_whmapi_fail("listaccts", "", status)
    /\ UNCHANGED <<args, users, idx, mailbox_data, files, fmt_vars>>

\* listaccts answers 200 without data.acct: "No cPanel users found", exit 1
ListAcctsNoUsers ==
    /\ pc = "get_cpanel_users"
    /\ \E body \in ListBodies :
        /\ NoUsersFound(body)
        /\ http_calls' = Append(http_calls, Call("listaccts", "", HttpOk, body))
    /\ stdout' = Append(stdout, [kind |-> "error_no_users"])
    /\ exit_code' = 1
    /\ pc' = "exited"
    /\ UNCHANGED <<args, users, idx, mailbox_data, files, fmt_vars>>

\* listaccts answers 200 with data.acct; then the -u override
ListAcctsOk ==
    /\ pc = "get_cpanel_users"
    /\ \E body \in ListBodies :
        /\ ~NoUsersFound(body)
        /\ http_calls' = Append(http_calls, Call("listaccts", "", HttpOk, body))
        /\ users' = ProcessedUsers(args, body.acct)
    /\ pc' = "collect_mailboxes"
    /\ UNCHANGED <<args, idx, mailbox_data, stdout, exit_code, files, fmt_vars>>

\* one pass of the loop of collect_mailboxes: the call fails
GetMailboxesHttpError ==
    /\ pc = "collect_mailboxes"
    /\ idx < Len(users)
    /\ \E status \in Statuses : run_whmapi_fail("cpanel", users[idx + 1], status)
    /\ UNCHANGED <<args, users, idx, mailbox_data, files, fmt_vars>>

RECURSIVE Returned(_)
\* the mailboxes the server has returned in the answers of `calls`
Returned(calls) ==
    IF calls = <<>> THEN 0
    ELSE Returned(Tail(calls))
         + (IF Head(calls).api_function = "cpanel" /\ Head(calls).status = HttpOk
            THEN Len(Head(calls).body.data) ELSE 0)

\* the loop treating an account without mailboxes as fatal, as the listing does
GetMailboxesOk_hard ==
    /\ pc = "collect_mailboxes"
    /\ idx < Len(users)
    /\ \E body \in BoxBodies :
        /\ Returned(http_calls) + Len(body.data) <= MaxBoxes
        /\ http_calls' =
              Append(http_calls, Call("cpanel", users[idx + 1], HttpOk, body))
        /\ mailbox_data' =
              mailbox_data
              \o RowsOf(users[idx + 1], get_mailboxes(body), args.hide_empty)
        /\ IF get_mailboxes(body) = <<>>
           THEN /\ pc' = "exited"
                /\ exit_code' = 1
                /\ stdout' = Append(stdout, [kind |-> "error_no_users"])
                /\ idx' = idx
           ELSE /\ idx' = idx + 1
                /\ UNCHANGED <<pc, stdout, exit_code>>
    /\ UNCHANGED <<args, users, files, fmt_vars>>

\* one pass of the loop of collect_mailboxes: the call answers 200
\* (the server holds at most MaxBoxes mailboxes over all accounts)
GetMailboxesOk ==
    /\ pc = "collect_mailboxes"
    /\ idx < Len(users)
    /\ \E body \in BoxBodies :
        /\ Returned(http_calls) + Len(body.data) <= MaxBoxes
        /\ http_calls' =
              Append(http_calls, Call("cpanel", users[idx + 1], HttpOk, body))
        /\ mailbox_data' =
              mailbox_data
              \o RowsOf(users[idx + 1], get_mailboxes(body), args.hide_empty)
    /\ idx' = idx + 1
    /\ UNCHANGED <<args, pc, users, stdout, exit_code, files, fmt_vars>>

(***************************************************************************)
(* Reporting: DataFrame operations                                         *)
(***************************************************************************)
RECURSIVE SumBytes(_)
\* df["Size_Bytes"].sum()
SumBytes(rows) ==
    IF rows = <<>> THEN 0 ELSE Head(rows).Size_Bytes + SumBytes(Tail(rows))

RECURSIVE Filter(_, _, _)
\* df[df[column] == value]: the matching rows, order kept
Filter(rows, column, value) ==
    IF rows = <<>> THEN <<>>
    ELSE IF Head(rows)[column] = value
         THEN <<Head(rows)>> \o Filter(Tail(rows), column, value)
         ELSE Filter(Tail(rows), column, value)

\* the values of the column without the removal of repeats
Unique_all(rows, column) == [i \in 1..Len(rows) |-> rows[i][column]]

RECURSIVE Unique(_, _)
\* df[column].unique(): the distinct values in order of first appearance
Unique(rows, column) ==
    IF rows = <<>> THEN <<>>
    ELSE LET before == Unique(SubSeq(rows, 1, Len(rows) - 1), column)
             v == rows[Len(rows)][column]
         IN  IF \E i \in 1..Len(before) : before[i] = v THEN before
             ELSE Append(before, v)

\* sort_values(by="Size_Bytes", ascending=False): the default kind is
\* quicksort, which is not stable, so rows of equal size may come out in any
\* order; every descending arrangement of the rows is a possible result
sort_values(rows) ==
    {[i \in 1..Len(rows) |-> rows[p[i]]] :
        p \in {q \in Permutations(1..Len(rows)) :
                \A i, j \in 1..Len(rows) :
                    i < j => rows[q[i]].Size_Bytes >= rows[q[j]].Size_Bytes}}

\* head(n) for n >= 0
head(rows, n) == SubSeq(rows, 1, IF n < Len(rows) THEN n ELSE Len(rows))

\* df.groupby("cPanel_User")["Size_Bytes"].sum().reset_index()
account_totals(rows) ==
    LET keys == Unique(rows, "cPanel_User")
    IN  [i \in 1..Len(keys) |->
            [cPanel_User |-> keys[i],
             Size_Bytes |-> SumBytes(Filter(rows, "cPanel_User", keys[i]))]]

Human(n) == convert_to_human(ToDigits(n))

\* the domain blocks printed under one account, given a sorted table per domain
DomainBlocks(user_df, tables) ==
    LET domains == Unique(user_df, "Domain")
    IN  [i \in 1..Len(domains) |->
            [Domain |-> domains[i],
             Total_Bytes |-> SumBytes(tables[i]),
             Total |-> Human(SumBytes(tables[i])),
             table |-> tables[i]]]

RECURSIVE DomainTables(_, _)
\* the possible sorted tables, one per domain of `domains`
DomainTables(user_df, domains) ==
    IF domains = <<>> THEN {<<>>}
    ELSE {<<t>> \o rest :
            t \in sort_values(Filter(user_df, "Domain", Head(domains))),
            rest \in DomainTables(user_df, Tail(domains))}

\* what one pass of the loop over account_totals prints for `user`: the
\* account header and its domain blocks
AccountBlocks(rows, user) ==
    LET user_df == Filter(rows, "cPanel_User", user)
    IN  {[kind |-> "account", Account |-> user,
          Total_Bytes |-> SumBytes(user_df),
          Total |-> Human(SumBytes(user_df)),
          domains |-> DomainBlocks(user_df, tables)] :
            tables \in DomainTables(user_df, Unique(user_df, "Domain"))}

RECURSIVE BlocksInOrder(_, _)
\* what the loop over account_totals prints, for one order of the accounts
BlocksInOrder(rows, order) ==
    IF order = <<>> THEN {<<>>}
    ELSE {<<b>> \o rest :
            b \in AccountBlocks(rows, Head(order).cPanel_User),
            rest \in BlocksInOrder(rows, Tail(order))}

\* the possible bodies of the default report
DefaultReports(rows) ==
    UNION {BlocksInOrder(rows, order) :
            order \in sort_values(account_totals(rows))}

\* the three closing lines: execution time, server, mailboxes processed
Closing(rows) ==
    <<[kind |-> "execution_time"], [kind |-> "server"],
      [kind |-> "total_mailboxes", count |-> Len(rows)]>>

\* `if args.t:` branch, lines 161-164, then the closing lines
ReportTopN ==
    /\ pc = "collect_mailboxes"
    /\ idx = Len(users)
    /\ Truthy_t(args)
    /\ \E sorted \in sort_values(mailbox_data) :
        stdout' = stdout
                  \o <<[kind |-> "title_top", n |-> args.t],
                       [kind |-> "table", table |-> head(sorted, args.t)]>>
                  \o Closing(mailbox_data)
    /\ exit_code' = 0
    /\ pc' = "done"
    /\ UNCHANGED <<args, users, idx, mailbox_data, http_calls, files, fmt_vars>>

\* `else:` branch, lines 165-182, then the closing lines
ReportDefault ==
    /\ pc = "collect_mailboxes"
    /\ idx = Len(users)
    /\ ~Truthy_t(args)
    /\ \E blocks \in DefaultReports(mailbox_data) :
        stdout' = stdout \o <<[kind |-> "title_default"]>> \o blocks
                  \o Closing(mailbox_data)
    /\ exit_code' = 0
    /\ pc' = "done"
    /\ UNCHANGED <<args, users, idx, mailbox_data, http_calls, files, fmt_vars>>

Next ==
    \/ ListAcctsHttpError
    \/ ListAcctsNoUsers
    \/ ListAcctsOk
    \/ GetMailboxesHttpError
    \/ GetMailboxesOk
    \/ ReportTopN
    \/ ReportDefault

Spec == Init /\ [][Next]_vars

(***************************************************************************)
(* convert_to_human on its own: byte counts around every threshold, every  *)
(* rounding boundary (x.995) and every rounding tie (x.125, x.375)         *)
(***************************************************************************)
EdgeDigits == {0, 1, 128, 384, 1018, 1019, 1023}

IdleArgs ==
    [t_given |-> FALSE, t |-> 0, u |-> <<>>, o_given |-> FALSE,
     hide_empty |-> FALSE]

InitFmt ==
    /\ args = IdleArgs
    /\ pc = "idle"
    /\ users = <<>>
    /\ idx = 0
    /\ mailbox_data = <<>>
    /\ stdout = <<>>
    /\ exit_code = -1
    /\ http_calls = <<>>
    /\ files = {}
    /\ size_in \in [1..NDigits -> EdgeDigits]
    /\ size_out = NoString

Format ==
    /\ pc = "idle"
    /\ size_out = NoString
    /\ size_out' = convert_to_human(size_in)
    /\ UNCHANGED <<flow_vars, size_in>>

NextFmt == Format

SpecFmt == InitFmt /\ [][NextFmt]_vars

(***************************************************************************)
(* C9: convert_to_human                                                    *)
(***************************************************************************)
\* the unit the thresholds of the formatter's contract give a byte count:
\* index 0..4 of B, KB, MB, GB, TB (the largest k with size >= 1024^k)
BucketOf(d) ==
    IF \A i \in 1..NDigits : d[i] = 0 THEN 0
    ELSE (CHOOSE i \in 1..NDigits :
            d[i] # 0 /\ \A j \in (i + 1)..NDigits : d[j] = 0) - 1

UnitIndex(unit) == (CHOOSE i \in 1..Len(Units) : Units[i] = unit) - 1

\* reading a rendered string back: its value in hundredths of its unit
ParsedHundredths(s) ==
    IF s.dec = <<>> THEN s.whole * 100
    ELSE s.whole * 100 + s.dec[1] * 10 + s.dec[2]

\* the parsed value h/100 * 1024^u is at least 1024^j
ParsedGe(h, u, j) ==
    IF j <= u THEN h >= 100 \/ (h >= 1 /\ j < u)
    ELSE IF j = u + 1 THEN h >= 100 * Base
    ELSE IF j = u + 2 THEN h >= 100 * Base * Base
    ELSE FALSE

\* the unit bucket of the value parsed back from a rendered string
ParsedBucket(s) ==
    LET h == ParsedHundredths(s)
        u == UnitIndex(s.unit)
        S == {j \in 0..(Len(Units) - 1) : ParsedGe(h, u, j)}
    IN  IF S = {} THEN 0 ELSE CHOOSE j \in S : \A k \in S : k <= j

Formatted == pc = "idle" /\ size_out # NoString

\* the byte count of size_in when it is below 1024^2
SmallValue(d) == d[1] + Base * d[2]

Abs(x) == IF x < 0 THEN -x ELSE x

\* C9 (as stated): the unit follows the thresholds, counts below 1024 render
\* as the integer with no decimals, larger ones with exactly two decimals,
\* the four examples render as given, and the rendered value parsed back
\* lies in the same unit bucket as the byte count
C9_RoundTripSameBucket ==
    Formatted => ParsedBucket(size_out) = BucketOf(size_in)

\* C9 (amended): the unit follows the thresholds >= 1024^4 TB, >= 1024^3 GB,
\* >= 1024^2 MB, >= 1024 KB, else B; below 1024 the result is the integer and
\* "B" with no decimals; from 1024 on it is the quotient by the unit size
\* with exactly two decimals, rounded to nearest; 1023 -> "1023 B",
\* 1024 -> "1.00 KB", 1048576 -> "1.00 MB", 1099511627776 -> "1.00 TB"; the
\* value parsed back lies in the same bucket, except that a quotient of
\* 1023.995 or more renders as "1024.00" and parses into the next bucket up
C9_Format ==
    Formatted =>
        LET k == BucketOf(size_in)
            h == ParsedHundredths(size_out)
        IN  /\ size_out.unit = Units[k + 1]
            /\ k = 0 => size_out.dec = <<>> /\ size_out.whole = size_in[1]
            /\ k >= 1 =>
                /\ Len(size_out.dec) = 2
                /\ \A i \in 1..2 : size_out.dec[i] \in 0..9
                /\ size_out.whole \in 1..Base
            /\ k = 1 => 2 * Abs(h * Base - 100 * SmallValue(size_in)) <= Base
            /\ size_in = <<1023, 0, 0, 0, 0>> =>
                size_out = [whole |-> 1023, dec |-> <<>>, unit |-> "B"]
            /\ size_in = <<0, 1, 0, 0, 0>> =>
                size_out = [whole |-> 1, dec |-> <<0, 0>>, unit |-> "KB"]
            /\ size_in = <<0, 0, 1, 0, 0>> =>
                size_out = [whole |-> 1, dec |-> <<0, 0>>, unit |-> "MB"]
            /\ size_in = <<0, 0, 0, 0, 1>> =>
                size_out = [whole |-> 1, dec |-> <<0, 0>>, unit |-> "TB"]
            /\ IF size_out.whole = Base /\ k < Len(Units) - 1
               THEN ParsedBucket(size_out) = k + 1
               ELSE ParsedBucket(size_out) = k

\* C9 witness: 1048575 bytes came out as "1024.00 KB"
C9_Witness ==
    /\ Formatted
    /\ size_in = <<1023, 1023, 0, 0, 0>>
    /\ size_out = [whole |-> 1024, dec |-> <<0, 0>>, unit |-> "KB"]

(***************************************************************************)
(* Vocabulary of the claims about a run                                    *)
(***************************************************************************)
Range(f) == {f[i] : i \in DOMAIN f}

Min(a, b) == IF a < b THEN a ELSE b

Terminated == pc \in {"done", "exited"}

\* the per-account mailbox calls issued so far, in order
BoxCalls == SubSeq(http_calls, 2, Len(http_calls))

ReportKinds ==
    {"title_top", "title_default", "table", "account", "execution_time",
     "server", "total_mailboxes"}

ReportPrinted == \E i \in 1..Len(stdout) : stdout[i].kind \in ReportKinds

\* a 200 answer to a mailbox call that carries no mailbox list, or an empty one
SoftEmpty(call) ==
    /\ call.api_function = "cpanel"
    /\ call.status = 200
    /\ (call.body.shape # "data" \/ call.body.data = <<>>)

\* _diskused read as a decimal number and cut to its integer part
\* (missing: 0); the field is carried in tenths
Truncated(mailbox) ==
    IF "diskused" \notin DOMAIN mailbox THEN 0
    ELSE CHOOSE n \in 0..mailbox.diskused :
            10 * n <= mailbox.diskused /\ mailbox.diskused < 10 * n + 10

RECURSIVE Tagged(_, _)
\* the mailboxes of one answer, each with the account asked for and its size
Tagged(user, data) ==
    IF data = <<>> THEN <<>>
    ELSE <<[cPanel_User |-> user, Email |-> Head(data).email,
            Domain |-> Head(data).domain, Size_Bytes |-> Truncated(Head(data))]>>
         \o Tagged(user, Tail(data))

RECURSIVE AllReturned(_)
\* every mailbox the API has returned, in the order it returned them
AllReturned(calls) ==
    IF calls = <<>> THEN <<>>
    ELSE LET c == Head(calls)
         IN  (IF c.api_function = "cpanel" /\ c.status = 200
                 /\ c.body.shape = "data"
              THEN Tagged(c.user, c.body.data) ELSE <<>>)
             \o AllReturned(Tail(calls))

RECURSIVE NonZero(_)
\* the entries of non-zero size, order kept
NonZero(rows) ==
    IF rows = <<>> THEN <<>>
    ELSE IF Head(rows).Size_Bytes = 0 THEN NonZero(Tail(rows))
         ELSE <<Head(rows)>> \o NonZero(Tail(rows))

\* a record without its formatted size
Bare(row) ==
    [cPanel_User |-> row.cPanel_User, Email |-> row.Email,
     Domain |-> row.Domain, Size_Bytes |-> row.Size_Bytes]

BareRows(rows) == [i \in 1..Len(rows) |-> Bare(rows[i])]

\* every table printed so far: the flat one and those of the domain blocks
PrintedTables ==
    {stdout[i].table : i \in {j \in 1..Len(stdout) : stdout[j].kind = "table"}}
    \cup UNION {{stdout[i].domains[d].table : d \in 1..Len(stdout[i].domains)} :
                 i \in {j \in 1..Len(stdout) : stdout[j].kind = "account"}}

\* the account blocks of the default report, in printing order
AccountLines == SelectSeq(stdout, LAMBDA l : l.kind = "account")

(***************************************************************************)
(* C1: CSV export                                                          *)
(***************************************************************************)
CsvHeader == <<"cPanel_User", "Email", "Domain", "Size_Bytes", "Size_Human">>

\* C1: a run that completes normally with -o given has written a CSV file
\* with the header row and one row per collected record, in collection
\* order, in top-N mode and in default mode alike
C1_CsvWritten ==
    (pc = "done" /\ args.o_given) =>
        \E f \in files : f.header = CsvHeader /\ f.rows = mailbox_data

(***************************************************************************)
(* C2: the account listing must be non-empty                               *)
(***************************************************************************)
\* C2: a listing answer without a non-empty list of accounts (list absent,
\* or present and empty) ends the run with an error and exit code 1: no
\* mailbox call is issued and no report is printed
C2_EmptyListingFatal ==
    (/\ Len(http_calls) >= 1
     /\ http_calls[1].status = 200
     /\ (http_calls[1].body.shape # "acct" \/ http_calls[1].body.acct = <<>>))
    => /\ pc = "exited"
       /\ exit_code = 1
       /\ Len(http_calls) = 1
       /\ ~ReportPrinted

(***************************************************************************)
(* C3: the account filter                                                  *)
(***************************************************************************)
\* C3 (as stated): with -u given, whatever the listing call answered, the
\* accounts whose mailboxes a finished run fetched are exactly those of the
\* filter (here: in every finished run whose calls all answered 200)
C3_FilterWhateverListing ==
    (/\ Truthy_u(args)
     /\ Terminated
     /\ \A i \in 1..Len(http_calls) : http_calls[i].status = 200)
    => {BoxCalls[i].user : i \in 1..Len(BoxCalls)} = Range(args.u)

\* C3 (amended): with -u given, once the listing call has answered 200 with
\* an account list (whatever the list holds: neither filter account, or no
\* account at all) the processed list is the filter list, mailbox calls go
\* to the filter's entries in order and to no other account, and a run that
\* completes has fetched exactly the filter's accounts; a listing call that
\* answers non-200 or without an account list ends the run before any
\* mailbox is fetched; every record carries an account of the filter
C3_Filter ==
    Truthy_u(args) =>
        /\ \A i \in 1..Len(mailbox_data) :
              mailbox_data[i].cPanel_User \in Range(args.u)
        /\ Len(BoxCalls) <= Len(args.u)
        /\ \A i \in 1..Len(BoxCalls) : BoxCalls[i].user = args.u[i]
        /\ (/\ Len(http_calls) >= 1
            /\ http_calls[1].status = 200
            /\ http_calls[1].body.shape = "acct")
           => users = args.u
        /\ pc = "done" =>
              {BoxCalls[i].user : i \in 1..Len(BoxCalls)} = Range(args.u)
        /\ (/\ Len(http_calls) >= 1
            /\ (http_calls[1].status # 200 \/ http_calls[1].body.shape # "acct"))
           => Len(http_calls) = 1 /\ pc = "exited" /\ mailbox_data = <<>>

\* C3 witness: a completed run with -u whose listing held none of the
\* filter's accounts, and which collected records
C3_Witness ==
    /\ Truthy_u(args)
    /\ pc = "done"
    /\ Range(http_calls[1].body.acct) \cap Range(args.u) = {}
    /\ http_calls[1].body.acct # <<>>
    /\ mailbox_data # <<>>

(***************************************************************************)
(* C4: top-N mode                                                          *)
(***************************************************************************)
RECURSIVE InsertDesc(_, _)
\* `row` put into a descending list after every entry of at least its size
InsertDesc(sorted, row) ==
    IF sorted = <<>> THEN <<row>>
    ELSE IF Head(sorted).Size_Bytes >= row.Size_Bytes
         THEN <<Head(sorted)>> \o InsertDesc(Tail(sorted), row)
         ELSE <<row>> \o sorted

RECURSIVE StableDesc(_)
\* descending by size, rows of equal size in their original order
StableDesc(rows) ==
    IF rows = <<>> THEN <<>>
    ELSE InsertDesc(StableDesc(SubSeq(rows, 1, Len(rows) - 1)), rows[Len(rows)])

\* C4: whenever -t N is present with N >= 0 (N = 0 included) the run is in
\* top-N mode: it prints one flat table of min(N, count) rows, descending by
\* byte size, rows of equal size in collection order, and no account block
C4_TopNWheneverGiven ==
    (pc = "done" /\ args.t_given) =>
        /\ \E i \in 1..Len(stdout) :
              /\ stdout[i].kind = "table"
              /\ stdout[i].table =
                    SubSeq(StableDesc(mailbox_data), 1,
                           Min(args.t, Len(mailbox_data)))
        /\ \A i \in 1..Len(stdout) :
              stdout[i].kind \notin {"title_default", "account"}

(***************************************************************************)
(* C5: a non-200 answer ends the run                                       *)
(***************************************************************************)
\* C5: a call answered with a non-200 status is the last call of the run;
\* the run has exited with code 1, has printed the status and nothing else:
\* no table, account header or closing line, whatever was fetched before
C5_HttpErrorFatal ==
    \A i \in 1..Len(http_calls) :
        http_calls[i].status # 200 =>
            /\ i = Len(http_calls)
            /\ pc = "exited"
            /\ exit_code = 1
            /\ stdout = <<[kind |-> "error_http", status |-> http_calls[i].status]>>
            /\ ~ReportPrinted
            /\ ~ENABLED Next

\* C5 witness: the second account's call failed after the first account's
\* mailboxes had been collected
C5_Witness ==
    /\ Len(http_calls) = 3
    /\ http_calls[3].status # 200
    /\ mailbox_data # <<>>
    /\ pc = "exited"

(***************************************************************************)
(* C6: an answer without mailbox data is not an error                      *)
(***************************************************************************)
\* a step that issues a mailbox call answered 200 without a mailbox list
SoftEmptyStep ==
    /\ Len(http_calls') = Len(http_calls) + 1
    /\ SoftEmpty(http_calls'[Len(http_calls')])

\* C6: a 200 answer to a mailbox call that lacks result/data, or carries an
\* empty list, adds no row, leaves the rows collected so far as they are and
\* does not end the run: the loop moves on to the next account, and a run
\* that completes has issued the mailbox call of every processed account
C6_SoftFail ==
    /\ [][SoftEmptyStep =>
            /\ mailbox_data' = mailbox_data
            /\ pc' = "collect_mailboxes"
            /\ exit_code' = -1
            /\ stdout' = stdout
            /\ idx' = idx + 1
            /\ users' = users]_vars
    /\ [](pc = "collect_mailboxes" =>
            /\ Len(BoxCalls) = idx
            /\ idx < Len(users) => ENABLED GetMailboxesOk)
    /\ [](pc = "done" =>
            /\ Len(BoxCalls) = Len(users)
            /\ \A i \in 1..Len(users) : BoxCalls[i].user = users[i])

\* C6 witness: the first account's answer had no result/data, the second
\* account's mailboxes were fetched and collected, and the run completed
C6_Witness ==
    /\ pc = "done"
    /\ Len(http_calls) = 3
    /\ SoftEmpty(http_calls[2])
    /\ http_calls[2].body.shape = "no_result"
    /\ http_calls[3].body.shape = "data"
    /\ Len(mailbox_data) = Len(http_calls[3].body.data)
    /\ mailbox_data # <<>>

(***************************************************************************)
(* C7: hide-empty                                                          *)
(***************************************************************************)
\* C7: with --hide-empty no collected record, no printed row and no counted
\* mailbox has byte size 0, the byte size being _diskused read as a float
\* and cut to an integer (0 when missing): the collection is the returned
\* mailboxes of non-zero size; without the flag every returned mailbox is
\* exactly one record, zero sizes included
C7_HideEmpty ==
    /\ args.hide_empty =>
        /\ \A i \in 1..Len(mailbox_data) : mailbox_data[i].Size_Bytes # 0
        /\ \A t \in PrintedTables : \A i \in 1..Len(t) : t[i].Size_Bytes # 0
        /\ BareRows(mailbox_data) = NonZero(AllReturned(http_calls))
    /\ ~args.hide_empty => BareRows(mailbox_data) = AllReturned(http_calls)
    /\ \A i \in 1..Len(stdout) :
          stdout[i].kind = "total_mailboxes" =>
              stdout[i].count =
                 IF args.hide_empty THEN Len(NonZero(AllReturned(http_calls)))
                 ELSE Len(AllReturned(http_calls))

\* C7 witness: with the flag, a mailbox of "0.9" bytes and one without the
\* field were returned and dropped, one of "1.5" bytes was kept and printed
C7_Witness ==
    /\ args.hide_empty
    /\ pc = "done"
    /\ \E i \in 1..Len(AllReturned(http_calls)) :
          AllReturned(http_calls)[i].Size_Bytes = 0
    /\ \E i \in 2..Len(http_calls) :
          /\ http_calls[i].status = 200
          /\ http_calls[i].body.shape = "data"
          /\ \E k \in 1..Len(http_calls[i].body.data) :
                /\ "diskused" \in DOMAIN http_calls[i].body.data[k]
                /\ http_calls[i].body.data[k].diskused = 9
    /\ Len(mailbox_data) = 1
    /\ mailbox_data[1].Size_Bytes = 1

(***************************************************************************)
(* C8: totals of the default report                                        *)
(***************************************************************************)
RECURSIVE SumOf(_, _)
\* the sum of field `f` over a sequence of records
SumOf(seq, f) == IF seq = <<>> THEN 0 ELSE Head(seq)[f] + SumOf(Tail(seq), f)

\* how often `row` occurs in `rows`
Count(rows, row) == Cardinality({i \in 1..Len(rows) : rows[i] = row})

RECURSIVE Concat(_)
Concat(seqs) == IF seqs = <<>> THEN <<>> ELSE Head(seqs) \o Concat(Tail(seqs))

\* the rows of every domain table of one account block
BlockRows(block) ==
    Concat([d \in 1..Len(block.domains) |-> block.domains[d].table])

\* C8: in the default report the domain totals under an account add up to
\* the account's total, every collected record is in exactly one domain
\* table of exactly one account (the table of its own account and domain),
\* and the account totals add up to the sum of all collected byte sizes
C8_DefaultTotals ==
    (pc = "done" /\ ~Truthy_t(args)) =>
        LET blocks == AccountLines
            printed == Concat([b \in 1..Len(blocks) |-> BlockRows(blocks[b])])
        IN  /\ \A b \in 1..Len(blocks) :
                  /\ SumOf(blocks[b].domains, "Total_Bytes") = blocks[b].Total_Bytes
                  /\ blocks[b].Total = convert_to_human(ToDigits(blocks[b].Total_Bytes))
                  /\ \A d \in 1..Len(blocks[b].domains) :
                        LET dom == blocks[b].domains[d]
                        IN  /\ dom.Total_Bytes = SumOf(dom.table, "Size_Bytes")
                            /\ \A i \in 1..Len(dom.table) :
                                  /\ dom.table[i].cPanel_User = blocks[b].Account
                                  /\ dom.table[i].Domain = dom.Domain
                  /\ \A c \in 1..Len(blocks) :
                        c # b => blocks[c].Account # blocks[b].Account
                  /\ \A d, e \in 1..Len(blocks[b].domains) :
                        d # e => blocks[b].domains[d].Domain # blocks[b].domains[e].Domain
            /\ Len(printed) = Len(mailbox_data)
            /\ \A i \in 1..Len(mailbox_data) :
                  Count(printed, mailbox_data[i]) = Count(mailbox_data, mailbox_data[i])
            /\ SumOf(blocks, "Total_Bytes") = SumOf(mailbox_data, "Size_Bytes")

\* C8 witness: a default report of one account with two domains, its
\* total non-zero
C8_Witness ==
    /\ pc = "done"
    /\ ~Truthy_t(args)
    /\ Len(AccountLines) = 1
    /\ Len(AccountLines[1].domains) = 2
    /\ AccountLines[1].domains[1].Total_Bytes = 1
    /\ AccountLines[1].domains[2].Total_Bytes = 1
    /\ AccountLines[1].Total_Bytes = 2

(***************************************************************************)
(* C10: order of the calls and of the records                              *)
(***************************************************************************)
\* C10: the first call is the account listing, also with -u; it is the only
\* listing call; the mailbox calls follow, one per entry of the processed
\* list in list order, each after the answer to the one before; a run that
\* completes has made 1 + len(processed list) calls; the records are in
\* the order of the processed accounts and, within one, of the API's answer
C10_CallOrder ==
    /\ pc # "get_cpanel_users" =>
          /\ Len(http_calls) >= 1
          /\ http_calls[1].api_function = "listaccts"
    /\ \A i \in 2..Len(http_calls) :
          /\ http_calls[i].api_function = "cpanel"
          /\ http_calls[i].user = users[i - 1]
          /\ http_calls[i - 1].status = 200
    /\ Len(BoxCalls) <= Len(users)
    /\ pc = "done" => Len(http_calls) = 1 + Len(users)
    /\ BareRows(mailbox_data) =
          IF args.hide_empty THEN NonZero(AllReturned(http_calls))
          ELSE AllReturned(http_calls)

\* C10 witness: with -u, a completed run of three calls whose first is the
\* listing; each of the two accounts contributed one record
C10_Witness ==
    /\ pc = "done"
    /\ Truthy_u(args)
    /\ Len(http_calls) = 3
    /\ http_calls[1].api_function = "listaccts"
    /\ Len(mailbox_data) = 2
    /\ mailbox_data[1].cPanel_User = users[1]
    /\ mailbox_data[2].cPanel_User = users[2]
    /\ users[1] # users[2]

====
